---------------------------- MODULE Spec2Model ----------------------------
(***************************************************************************)
(* Model of crawl_dc.py: the page-by-page crawl of a forum listing with    *)
(* its two stopping rules, the grouping of the collected posts by ISO      *)
(* week, and the merge of each group into the week's JSON file.            *)
(*                                                                         *)
(* The forum is the environment: posts 1..top exist, the listing shows     *)
(* them newest first (highest number first), PageSize per page, and a new  *)
(* post may appear on top at any moment, also between two page fetches of  *)
(* one run (which shifts every row down by one).                           *)
(***************************************************************************)
EXTENDS Integers, Sequences, FiniteSets, TLC

(***************************************************************************)
(* Bounds of the model.                                                    *)
(***************************************************************************)
NumIds == 7        \* posts the forum can hold (post numbers 1..NumIds)
PageSize == 3      \* post rows per listing page
MaxRuns == 2       \* runs of main()
MaxSeed == 2       \* SpecMerge: length of the list that seeds the archive
MaxNew == 2        \* SpecMerge: length of new_records
MergeIds == 3      \* SpecMerge: records are drawn from posts 3..3+MergeIds-1

(***************************************************************************)
(* Program constants.                                                      *)
(***************************************************************************)
DAYS_LIMIT == 28
DupLimit == 5

(***************************************************************************)
(* datetime: the proleptic Gregorian calendar as Python's datetime module  *)
(* computes it.  A datetime object is [ord, sec]: the day's ordinal        *)
(* (0001-01-01 is day 1) and the second of the day.  A formatted date is   *)
(* the tuple of its fields.                                                *)
(***************************************************************************)
IsLeap(y) == (y % 4 = 0) /\ ((y % 100 # 0) \/ (y % 400 = 0))

DaysInMonthTable == <<31, 28, 31, 30, 31, 30, 31, 31, 30, 31, 30, 31>>

DaysBeforeMonthTable == <<0, 31, 59, 90, 120, 151, 181, 212, 243, 273, 304, 334>>

DaysBeforeMonth(y, m) ==
    DaysBeforeMonthTable[m] + (IF m > 2 /\ IsLeap(y) THEN 1 ELSE 0)

DaysBeforeYear(y) ==
    LET p == y - 1 IN p * 365 + (p \div 4) - (p \div 100) + (p \div 400)

Ymd2Ord(y, m, d) == DaysBeforeYear(y) + DaysBeforeMonth(y, m) + d

\* datetime._ord2ymd
Ord2Ymd(n0) ==
    LET n    == n0 - 1
        n400 == n \div 146097
        r400 == n % 146097
        n100 == r400 \div 36524
        r100 == r400 % 36524
        n4   == r100 \div 1461
        r4   == r100 % 1461
        n1   == r4 \div 365
        r1   == r4 % 365
        year == n400 * 400 + 1 + n100 * 100 + n4 * 4 + n1
    IN  IF n1 = 4 \/ n100 = 4
        THEN <<year - 1, 12, 31>>
        ELSE LET leap  == (n1 = 3) /\ ((n4 # 24) \/ (n100 = 3))
                 m0    == (r1 + 50) \div 32
                 prec0 == DaysBeforeMonthTable[m0]
                          + (IF m0 > 2 /\ leap THEN 1 ELSE 0)
                 month == IF prec0 > r1 THEN m0 - 1 ELSE m0
                 prec  == IF prec0 > r1
                          THEN prec0 - (DaysInMonthTable[month]
                                        + (IF month = 2 /\ leap THEN 1 ELSE 0))
                          ELSE prec0
             IN  <<year, month, r1 - prec + 1>>

\* date.weekday(): Monday is 0
Weekday(dt) == (dt.ord + 6) % 7

\* datetime - timedelta(days=n) / datetime + timedelta(days=n)
AddDays(dt, n) == [ord |-> dt.ord + n, sec |-> dt.sec]

\* comparison of two datetime objects
DtLess(a, b) == (a.ord < b.ord) \/ (a.ord = b.ord /\ a.sec < b.sec)

DtGeq(a, b) == ~DtLess(a, b)

\* _days_in_month
DaysInMonth(y, m) == IF m = 2 /\ IsLeap(y) THEN 29 ELSE DaysInMonthTable[m]

\* datetime(year, month, day, ...) raises ValueError outside these ranges
ValidDate(y, m, d) ==
    y \in 1..9999 /\ m \in 1..12 /\ d \in 1..DaysInMonth(y, m)

ValidTime(h, mi, sec) == h \in 0..23 /\ mi \in 0..59 /\ sec \in 0..59

\* a text is the tuple of the numbers it shows; strptime with the format
\* '%Y-%m-%d %H:%M:%S' raises ValueError unless the text has the six fields
\* of the format and they name a date and a time
ValidStamp(s) ==
    /\ Len(s) = 6
    /\ ValidDate(s[1], s[2], s[3])
    /\ ValidTime(s[4], s[5], s[6])

\* datetime.strptime(s, '%Y-%m-%d %H:%M:%S') and '%Y-%m-%dT%H:%M:%S'
Strptime(s) ==
    [ord |-> Ymd2Ord(s[1], s[2], s[3]),
     sec |-> s[4] * 3600 + s[5] * 60 + s[6]]

\* strftime('%Y-%m-%d')
StrfDate(dt) == Ord2Ymd(dt.ord)

\* strftime('%H:%M:%S')
StrfTime(dt) == <<dt.sec \div 3600, (dt.sec % 3600) \div 60, dt.sec % 60>>

\* strftime('%Y-%m-%dT%H:%M:%S')
StrfDateTime(dt) == StrfDate(dt) \o StrfTime(dt)

\* order of two formatted strings of the same fixed-width format
RECURSIVE StrLess(_, _)
StrLess(a, b) ==
    IF a = << >> \/ b = << >> THEN a = << >> /\ b # << >>
    ELSE IF Head(a) # Head(b) THEN Head(a) < Head(b)
    ELSE StrLess(Tail(a), Tail(b))

\* datetime._isoweek1monday
IsoWeek1Monday(year) ==
    LET firstday     == Ymd2Ord(year, 1, 1)
        firstweekday == (firstday + 6) % 7
        week1monday  == firstday - firstweekday
    IN  IF firstweekday > 3 THEN week1monday + 7 ELSE week1monday

\* date.isocalendar(): <<ISO year, ISO week, ISO weekday>>
IsoCalendar(dt) ==
    LET year == Ord2Ymd(dt.ord)[1]
        w1   == IsoWeek1Monday(year)
        week == (dt.ord - w1) \div 7
        day  == (dt.ord - w1) % 7
    IN  IF week < 0
        THEN LET w0 == IsoWeek1Monday(year - 1)
             IN  <<year - 1, ((dt.ord - w0) \div 7) + 1, ((dt.ord - w0) % 7) + 1>>
        ELSE IF week >= 52 /\ dt.ord >= IsoWeek1Monday(year + 1)
        THEN <<year + 1, 1, day + 1>>
        ELSE <<year, week + 1, day + 1>>

\* get_week_info with the calendar year in place of the ISO year
get_week_info_calendar_year(date) ==
    LET iso        == IsoCalendar(date)
        year       == Ord2Ymd(date.ord)[1]
        week_start == AddDays(date, 0 - Weekday(date))
        week_end   == AddDays(week_start, 6)
    IN  [week_id    |-> <<year, iso[2]>>,
         year       |-> year,
         week       |-> iso[2],
         week_start |-> StrfDate(week_start),
         week_end   |-> StrfDate(week_end)]

\* get_week_info: week_id is the pair <<ISO year, ISO week>> that the
\* format "{year}_W{week:02d}" writes
get_week_info(date) ==
    LET iso        == IsoCalendar(date)
        week_start == AddDays(date, 0 - Weekday(date))
        week_end   == AddDays(week_start, 6)
    IN  [week_id    |-> <<iso[1], iso[2]>>,
         year       |-> iso[1],
         week       |-> iso[2],
         week_start |-> StrfDate(week_start),
         week_end   |-> StrfDate(week_end)]


(***************************************************************************)
(* The forum.  The posts were written around the turn of the year epoch to *)
(* epoch + 1.  Post number i carries its timestamp in the title attribute  *)
(* of its date cell ('%Y-%m-%d %H:%M:%S'): PostTable[i] gives it with the  *)
(* year counted from epoch; timestamps do not decrease with the post       *)
(* number.  Todays are the wall-clock times at which a run may start       *)
(* (datetime.now()), in increasing order, written the same way.            *)
(***************************************************************************)
VARIABLE epoch

\* 2020 has 53 ISO weeks and 2021-01-01 lies in 2020_W53; 2024-12-30 lies
\* in 2025_W01
Epochs == {2020, 2024}

PostTable ==
    << <<0, 12,  8, 15,  0,  0>>,
       <<0, 12,  8, 16,  0,  0>>,
       <<0, 12, 29, 23, 59, 59>>,
       <<0, 12, 30,  0,  0,  0>>,
       <<0, 12, 30,  0,  0,  0>>,
       <<1,  1,  1,  8, 30, 15>>,
       <<1,  1,  5,  9,  0,  0>>,
       <<1,  1,  5, 10,  0,  0>> >>

Todays ==
    << <<1, 1, 5, 12, 0, 0>>,
       <<1, 1, 5, 15, 0, 0>>,
       <<1, 1, 6, 12, 0, 0>> >>

\* the timestamp text of a table entry
InYear(e) == <<epoch + e[1], e[2], e[3], e[4], e[5], e[6]>>

\* A row of the listing table.  gall_date is << >> without a td.gall_date
\* cell, else <<[title, text]>>: title is the text of the title attribute
\* (<< >> when the attribute is missing or empty), text is the displayed
\* text, [sep, parts]: the parts that text.split(sep) yields, where sep is
\* ":" when the text contains a colon, else "." when it contains a dot, else
\* ""; a part is <<n>> when int() accepts it and << >> when int() raises.
\* gall_writer is << >> without a td.gall_writer cell, else
\* <<[data_uid, data_ip, data_nick, text]>>, the nickname and the cell text
\* as tuples of characters.
Num(n) == <<n>>

NotNum == << >>

\* the marker that author.startswith tests: the character U+3147 twice,
\* written "o" here
AnonNick == <<"o", "o">>

NoticeRow == [data_type |-> "icon_notice", data_no |-> 0,
              gall_date |-> << >>, gall_writer |-> << >>, views |-> 0]

PostRow(id, v) ==
    [data_type   |-> "",
     data_no     |-> id,
     gall_date   |-> << [title |-> InYear(PostTable[id]),
                         text  |-> [sep   |-> ".",
                                    parts |-> <<Num(PostTable[id][2]),
                                                Num(PostTable[id][3])>>]] >>,
     gall_writer |-> << [data_uid  |-> "",
                         data_ip   |-> "1.2",
                         data_nick |-> AnonNick,
                         text      |-> AnonNick] >>,
     views       |-> v]

\* the post rows of listing page p when the forum holds posts 1..t
PostRows(t, p) ==
    LET first == (p - 1) * PageSize
        left  == t - first
        cnt   == IF left <= 0 THEN 0 ELSE IF left < PageSize THEN left ELSE PageSize
    IN  [k \in 1..cnt |-> t - first - k + 1]

\* soup.select('tr.ub-content') on the fetched page: a notice row when the
\* page shows one, then the page's post rows with the view counts of the
\* moment
PageOf(t, p, notice, v) ==
    (IF notice THEN <<NoticeRow>> ELSE << >>)
        \o [k \in 1..Len(PostRows(t, p)) |-> PostRow(PostRows(t, p)[k], v)]

\* the pages that can show a notice row: those with post rows, and the
\* first page behind them
MayShowNotice(t, p) == (p - 1) * PageSize <= t

(***************************************************************************)
(* Record Extractor.  The result is << >> for None, or <<record>>.         *)
(***************************************************************************)
AllNum(parts) == \A i \in 1..Len(parts) : parts[i] # NotNum

YearOf(dt) == Ord2Ymd(dt.ord)[1]

\* datetime(year, month, day, hour, minute)
MakeDatetime(y, m, d, h, mi) ==
    [ord |-> Ymd2Ord(y, m, d), sec |-> h * 3600 + mi * 60]

\* parse_date behind the title attribute: the displayed text.  Each branch
\* is a try block whose except clause passes on to `return None`.
parse_date_text(text, today) ==
    IF text.sep = ":"
    THEN \* hour, minute = map(int, date_text.split(':'))
         IF /\ Len(text.parts) = 2
            /\ AllNum(text.parts)
            /\ ValidTime(text.parts[1][1], text.parts[2][1], 0)
         THEN LET ymd == Ord2Ymd(today.ord)
              IN  <<MakeDatetime(ymd[1], ymd[2], ymd[3],
                                 text.parts[1][1], text.parts[2][1])>>
         ELSE << >>
    ELSE IF text.sep = "."
    THEN IF Len(text.parts) = 2
         THEN IF /\ AllNum(text.parts)
                 /\ ValidDate(YearOf(today), text.parts[1][1], text.parts[2][1])
              THEN <<MakeDatetime(YearOf(today), text.parts[1][1],
                                  text.parts[2][1], 0, 0)>>
              ELSE << >>
         ELSE IF Len(text.parts) = 3
         THEN IF /\ AllNum(text.parts)
                 /\ ValidDate(2000 + text.parts[1][1], text.parts[2][1],
                              text.parts[3][1])
              THEN <<MakeDatetime(2000 + text.parts[1][1], text.parts[2][1],
                                  text.parts[3][1], 0, 0)>>
              ELSE << >>
         ELSE << >>
    ELSE << >>

\* parse_date that returns None when strptime raises on the title attribute
parse_date_title_only(date_tag, today) ==
    IF date_tag = << >> THEN << >>
    ELSE IF date_tag[1].title # << >>
    THEN (IF ValidStamp(date_tag[1].title)
          THEN <<Strptime(date_tag[1].title)>> ELSE << >>)
    ELSE parse_date_text(date_tag[1].text, today)

\* parse_date: the title attribute carries the full timestamp; when it is
\* missing or empty, or strptime raises on it, the displayed text is parsed
parse_date(date_tag, today) ==
    IF date_tag = << >> THEN << >>
    ELSE IF date_tag[1].title # << >> /\ ValidStamp(date_tag[1].title)
    THEN <<Strptime(date_tag[1].title)>>
    ELSE parse_date_text(date_tag[1].text, today)

\* author.startswith(prefix)
StartsWith(s, prefix) ==
    Len(s) >= Len(prefix) /\ SubSeq(s, 1, Len(prefix)) = prefix

\* author_type that is "unknown" whenever the cell has neither attribute
author_type_unknown_else(writer_tag) ==
    IF writer_tag = << >> THEN "unknown"
    ELSE LET author == IF writer_tag[1].data_nick # << >>
                       THEN writer_tag[1].data_nick ELSE writer_tag[1].text
         IN  IF writer_tag[1].data_uid # "" THEN "member"
             ELSE IF writer_tag[1].data_ip # ""
             THEN (IF StartsWith(author, AnonNick) THEN "semi_anonymous" ELSE "ip")
             ELSE "unknown"

\* extract_post_data: author_type
author_type_of(writer_tag) ==
    IF writer_tag = << >> THEN "unknown"
    ELSE LET author == IF writer_tag[1].data_nick # << >>
                       THEN writer_tag[1].data_nick ELSE writer_tag[1].text
         IN  IF writer_tag[1].data_uid # "" THEN "member"
             ELSE IF writer_tag[1].data_ip # ""
             THEN (IF StartsWith(author, AnonNick) THEN "semi_anonymous" ELSE "ip")
             ELSE "ip"

extract_post_data(row, today) ==
    IF row.data_type = "icon_notice" THEN << >>
    ELSE IF row.data_no = 0 THEN << >>
    ELSE IF parse_date(row.gall_date, today) = << >> THEN << >>
    ELSE LET post_datetime == parse_date(row.gall_date, today)[1]
         IN  << [post_id      |-> row.data_no,
                 author_type  |-> author_type_of(row.gall_writer),
                 date         |-> StrfDate(post_datetime),
                 time         |-> StrfTime(post_datetime),
                 datetime     |-> StrfDateTime(post_datetime),
                 views        |-> row.views,
                 datetime_obj |-> post_datetime] >>

\* del post['_datetime_obj']
StripObj(post) ==
    [post_id     |-> post.post_id,
     author_type |-> post.author_type,
     date        |-> post.date,
     time        |-> post.time,
     datetime    |-> post.datetime,
     views       |-> post.views]

(***************************************************************************)
(* The archive directory: files maps the week_id of every existing file to *)
(* its content, [complete, data]: data is <<WeekFile>> when the text on    *)
(* disk is the whole JSON document, and << >> while it is a proper prefix  *)
(* of it (after open(path, 'w') truncated the file and before json.dump    *)
(* and close have written all of it).                                      *)
(***************************************************************************)
PartialText == [complete |-> FALSE, data |-> << >>]

WholeText(wf) == [complete |-> TRUE, data |-> <<wf>>]

\* load_week_data: None when the file does not exist
load_week_data(fs, week_id) ==
    IF week_id \in DOMAIN fs THEN fs[week_id].data ELSE << >>

\* the ids of all posts of one file
FileIds(content) ==
    IF content.data = << >> THEN {}
    ELSE {content.data[1].posts[i].post_id : i \in 1..Len(content.data[1].posts)}

\* load_all_existing_ids that finds no file
load_all_existing_ids_none(fs) == {}

\* load_all_existing_ids
load_all_existing_ids(fs) == UNION {FileIds(fs[w]) : w \in DOMAIN fs}

\* create_week_structure
create_week_structure(week_info, now) ==
    [gallery_id   |-> "thesingularity",
     week         |-> week_info.week_id,
     week_start   |-> week_info.week_start,
     week_end     |-> week_info.week_end,
     last_updated |-> StrfDateTime(now),
     posts        |-> << >>,
     total_posts  |-> 0]

(***************************************************************************)
(* Week Partitioner and Archive Store.                                     *)
(***************************************************************************)
\* organize_by_week: the dict as [keys, val], keys in insertion order
RECURSIVE organize_by_week(_)
organize_by_week(posts) ==
    IF posts = << >> THEN [keys |-> << >>, val |-> << >>]
    ELSE LET n         == Len(posts)
             weeks     == organize_by_week(SubSeq(posts, 1, n - 1))
             post      == posts[n]
             post_date == Strptime(post.datetime)
             week_info == get_week_info(post_date)
             week_id   == week_info.week_id
             at        == {i \in 1..Len(weeks.keys) : weeks.keys[i] = week_id}
         IN  IF at = {}
             THEN [keys |-> Append(weeks.keys, week_id),
                   val  |-> Append(weeks.val, [info |-> week_info, posts |-> <<post>>])]
             ELSE LET i == CHOOSE j \in at : TRUE
                  IN  [keys |-> weeks.keys,
                       val  |-> [weeks.val EXCEPT ![i].posts = Append(@, post)]]

\* x goes behind every element whose key is not smaller than its own
RECURSIVE InsertDesc(_, _)
InsertDesc(sorted, x) ==
    IF sorted = << >> THEN <<x>>
    ELSE IF StrLess(Head(sorted).datetime, x.datetime)
    THEN <<x>> \o sorted
    ELSE <<Head(sorted)>> \o InsertDesc(Tail(sorted), x)

\* SortDesc without the sort
SortDescNone(s) == s

\* list.sort(key=lambda x: x['datetime'], reverse=True): stable
RECURSIVE SortDesc(_)
SortDesc(s) ==
    IF s = << >> THEN << >>
    ELSE InsertDesc(SortDesc(SubSeq(s, 1, Len(s) - 1)), s[Len(s)])

\* MergedPosts without the filter on the ids the file already holds
MergedPostsNoFilter(existing_data, new_posts) ==
    IF existing_data # << >>
    THEN existing_data[1].posts \o new_posts
    ELSE new_posts

\* MergedPosts that writes the new posts over the file's posts
MergedPostsOverwrite(existing_data, new_posts) == new_posts

\* the posts of the week's file before the sort
MergedPosts(existing_data, new_posts) ==
    IF existing_data # << >>
    THEN LET ids == {existing_data[1].posts[i].post_id :
                        i \in 1..Len(existing_data[1].posts)}
             unique_new_posts ==
                 SelectSeq(new_posts, LAMBDA post : post.post_id \notin ids)
         IN  existing_data[1].posts \o unique_new_posts
    ELSE new_posts

\* the week_structure that merge_and_save hands to save_week_data
WeekStructure(existing_data, week_data, now) ==
    LET all == SortDesc(MergedPosts(existing_data, week_data.posts))
    IN  [create_week_structure(week_data.info, now)
            EXCEPT !.posts = all, !.total_posts = Len(all)]

(***************************************************************************)
(* Decisions of the row loop of crawl_posts.                               *)
(***************************************************************************)
IsDuplicate(post_id, ids) == post_id \in ids

\* DupLimitReached with > for >=
DupLimitReachedLate(count) == count > DupLimit

DupLimitReached(count) == count >= DupLimit

InWindow(post_datetime, cutoff) == DtGeq(post_datetime, cutoff)

(***************************************************************************)
(* State.                                                                  *)
(***************************************************************************)
VARIABLES
    top,                    \* the forum holds posts 1..top
    files,                  \* the archive directory
    pc,                     \* "idle", "fetch", "row", "ret", "merge", "dump",
                            \* "error" (main has raised), and "extract" and
                            \* "extracted" in SpecExtract
    runNo,                  \* runs started so far
    todayIdx,               \* today = Todays[todayIdx]; 0 before the first run
    existing_ids, all_posts, page, rows, rowIdx,
    stop_crawling, consecutive_dup_count,      \* locals of crawl_posts
    weeks_data,             \* main: the dict of organize_by_week
    weekIdx,                \* merge_and_save: position of the loop over weeks_data
    existing_data, week_structure,             \* locals of merge_and_save
    examined,               \* history: ids of the records extracted in this run
    fetched,                \* history: pages requested in this run
    failedPage,             \* history: page whose fetch failed in this run, or 0
    acceptedOn,             \* history: page on which each element of all_posts was accepted
    acceptedPos,            \* history: its position in examined
    filesAtStart,           \* history: the archive when this run started
    failedPrev, changedPrev, changedThis,      \* history across two runs
    failedPagePrev,         \* history: failedPage of the run before this one
    new_records, calls, beforeFirst, afterFirst   \* SpecMerge: the repeated call

vars == <<epoch, top, files, pc, runNo, todayIdx, existing_ids, all_posts, page, rows,
          rowIdx, stop_crawling, consecutive_dup_count, weeks_data, weekIdx,
          existing_data, week_structure, examined, fetched, failedPage,
          acceptedOn, acceptedPos, filesAtStart, failedPrev, changedPrev,
          changedThis, failedPagePrev, new_records, calls,
          beforeFirst, afterFirst>>

crawlVars == <<existing_ids, all_posts, page, rows, rowIdx, stop_crawling,
               consecutive_dup_count>>

mergeVars == <<weeks_data, weekIdx, existing_data, week_structure>>

histVars == <<examined, fetched, failedPage, acceptedOn, acceptedPos, filesAtStart,
              failedPrev, changedPrev, changedThis, failedPagePrev>>

callVars == <<new_records, calls, beforeFirst, afterFirst>>

today == Strptime(InYear(Todays[todayIdx]))

cutoff_date == AddDays(today, 0 - DAYS_LIMIT)

EmptyWeeks == [keys |-> << >>, val |-> << >>]

Init ==
    /\ epoch \in Epochs
    /\ top = 0
    /\ files = << >>
    /\ pc = "idle"
    /\ runNo = 0
    /\ todayIdx = 0
    /\ existing_ids = {}
    /\ all_posts = << >>
    /\ page = 1
    /\ rows = << >>
    /\ rowIdx = 0
    /\ stop_crawling = FALSE
    /\ consecutive_dup_count = 0
    /\ weeks_data = EmptyWeeks
    /\ weekIdx = 1
    /\ existing_data = << >>
    /\ week_structure = << >>
    /\ examined = << >>
    /\ fetched = << >>
    /\ failedPage = 0
    /\ acceptedOn = << >>
    /\ acceptedPos = << >>
    /\ filesAtStart = << >>
    /\ failedPrev = FALSE
    /\ changedPrev = FALSE
    /\ changedThis = FALSE
    /\ failedPagePrev = 0
    /\ new_records = << >>
    /\ calls = 0
    /\ beforeFirst = << >>
    /\ afterFirst = << >>

(***************************************************************************)
(* Environment: a new post appears on top of the listing.  The listing is  *)
(* read only by a page fetch, so it is enough to let it change between     *)
(* runs and between two fetches of a run.                                  *)
(***************************************************************************)
NewPost ==
    /\ pc = "idle" \/ (pc = "fetch" /\ page > 1)
    /\ top < NumIds
    /\ top' = top + 1
    /\ changedThis' = TRUE
    /\ UNCHANGED <<epoch, files, pc, runNo, todayIdx, crawlVars, mergeVars,
                   callVars, examined, fetched, failedPage, acceptedOn, acceptedPos,
                   filesAtStart, failedPrev, changedPrev, failedPagePrev>>

(***************************************************************************)
(* main -> crawl_posts, up to the first page request.                      *)
(***************************************************************************)
StartRun ==
    /\ pc = "idle"
    /\ runNo < MaxRuns
    /\ \A w \in DOMAIN files : files[w].complete
    /\ \E t \in (todayIdx + 1)..Len(Todays) : todayIdx' = t
    /\ runNo' = runNo + 1
    /\ existing_ids' = load_all_existing_ids(files)
    /\ all_posts' = << >>
    /\ page' = 1
    /\ stop_crawling' = FALSE
    /\ consecutive_dup_count' = 0
    /\ rows' = << >>
    /\ rowIdx' = 0
    /\ pc' = "fetch"
    /\ examined' = << >>
    /\ fetched' = << >>
    /\ failedPage' = 0
    /\ acceptedOn' = << >>
    /\ acceptedPos' = << >>
    /\ filesAtStart' = files
    /\ failedPrev' = (failedPage > 0)
    /\ changedPrev' = changedThis
    /\ changedThis' = FALSE
    /\ failedPagePrev' = failedPage
    /\ UNCHANGED <<epoch, top, files, mergeVars, callVars>>

(***************************************************************************)
(* crawl_posts: one page request.                                          *)
(***************************************************************************)
\* FetchOK that goes on to the next page behind an empty page
FetchOKKeepsGoing ==
    /\ pc = "fetch"
    /\ \E notice \in BOOLEAN :
          /\ notice => MayShowNotice(top, page)
          /\ rows' = PageOf(top, page, notice, runNo)
    /\ fetched' = Append(fetched, page)
    /\ IF rows' = << >>
       THEN pc' = "fetch" /\ rowIdx' = 0 /\ page' = page + 1
       ELSE pc' = "row" /\ rowIdx' = 1 /\ page' = page
    /\ UNCHANGED <<epoch, top, files, runNo, todayIdx, existing_ids, all_posts,
                   stop_crawling, consecutive_dup_count, mergeVars, callVars,
                   examined, failedPage, acceptedOn, acceptedPos, filesAtStart,
                   failedPrev, changedPrev, changedThis, failedPagePrev>>

\* requests.get succeeds; the page is parsed into rows
FetchOK ==
    /\ pc = "fetch"
    /\ \E notice \in BOOLEAN :
          /\ notice => MayShowNotice(top, page)
          /\ rows' = PageOf(top, page, notice, runNo)
    /\ fetched' = Append(fetched, page)
    /\ IF rows' = << >>
       THEN pc' = "ret" /\ rowIdx' = 0
       ELSE pc' = "row" /\ rowIdx' = 1
    /\ UNCHANGED <<epoch, top, files, runNo, todayIdx, existing_ids, all_posts, page,
                   stop_crawling, consecutive_dup_count, mergeVars, callVars,
                   examined, failedPage, acceptedOn, acceptedPos, filesAtStart,
                   failedPrev, changedPrev, changedThis, failedPagePrev>>

\* FetchFail that lets the exception end the run
FetchFailRaises ==
    /\ pc = "fetch"
    /\ fetched' = Append(fetched, page)
    /\ failedPage' = page
    /\ pc' = "idle"
    /\ UNCHANGED <<epoch, top, files, runNo, todayIdx, crawlVars, mergeVars, callVars,
                   examined, acceptedOn, acceptedPos, filesAtStart, failedPrev,
                   changedPrev, changedThis, failedPagePrev>>

\* requests.RequestException: the loop is left
FetchFail ==
    /\ pc = "fetch"
    /\ fetched' = Append(fetched, page)
    /\ failedPage' = page
    /\ pc' = "ret"
    /\ UNCHANGED <<epoch, top, files, runNo, todayIdx, crawlVars, mergeVars, callVars,
                   examined, acceptedOn, acceptedPos, filesAtStart, failedPrev,
                   changedPrev, changedThis, failedPagePrev>>

(***************************************************************************)
(* crawl_posts: one iteration of `for row in rows`, and, behind the last   *)
(* row of the page, the end of the iteration of the while loop.            *)
(***************************************************************************)
\* RowVerdict that skips an unknown record older than the cutoff
RowVerdictSkipOld(post_data, ids, count, cutoff) ==
    IF post_data = << >> THEN "skip"
    ELSE IF IsDuplicate(post_data[1].post_id, ids)
    THEN (IF DupLimitReached(count + 1) THEN "stop" ELSE "skip")
    ELSE IF InWindow(post_data[1].datetime_obj, cutoff) THEN "accept"
    ELSE "skip"

\* RowVerdict that checks the date before the duplicate
RowVerdictDateFirst(post_data, ids, count, cutoff) ==
    IF post_data = << >> THEN "skip"
    ELSE IF ~InWindow(post_data[1].datetime_obj, cutoff) THEN "stop"
    ELSE IF IsDuplicate(post_data[1].post_id, ids)
    THEN (IF DupLimitReached(count + 1) THEN "stop" ELSE "skip")
    ELSE "accept"

\* RowVerdict that takes a record collected earlier in the run for known
RowVerdictCollectedKnown(post_data, ids, count, cutoff) ==
    IF post_data = << >> THEN "skip"
    ELSE IF IsDuplicate(post_data[1].post_id,
                        ids \cup {all_posts[i].post_id : i \in 1..Len(all_posts)})
    THEN (IF DupLimitReached(count + 1) THEN "stop" ELSE "skip")
    ELSE IF InWindow(post_data[1].datetime_obj, cutoff) THEN "accept"
    ELSE "stop"

\* RowVerdict that ends the crawl at a row the extractor rejects
RowVerdictStopOnAbsent(post_data, ids, count, cutoff) ==
    IF post_data = << >> THEN "stop"
    ELSE IF IsDuplicate(post_data[1].post_id, ids)
    THEN (IF DupLimitReached(count + 1) THEN "stop" ELSE "skip")
    ELSE IF InWindow(post_data[1].datetime_obj, cutoff) THEN "accept"
    ELSE "stop"

\* what the loop body does with the row: "skip" (continue), "accept" or
\* "stop" (stop_crawling = True; break)
RowVerdict(post_data, ids, count, cutoff) ==
    IF post_data = << >> THEN "skip"
    ELSE IF IsDuplicate(post_data[1].post_id, ids)
    THEN (IF DupLimitReached(count + 1) THEN "stop" ELSE "skip")
    ELSE IF InWindow(post_data[1].datetime_obj, cutoff) THEN "accept"
    ELSE "stop"

\* NextDupCount that starts again behind a row the extractor rejects
NextDupCountResetOnAbsent(post_data, ids, count) ==
    IF post_data = << >> THEN 0
    ELSE IF IsDuplicate(post_data[1].post_id, ids) THEN count + 1
    ELSE 0

\* consecutive_dup_count behind the row
NextDupCount(post_data, ids, count) ==
    IF post_data = << >> THEN count
    ELSE IF IsDuplicate(post_data[1].post_id, ids) THEN count + 1
    ELSE 0

RowStep ==
    /\ pc = "row"
    /\ LET post_data == extract_post_data(rows[rowIdx], today)
           verdict   == RowVerdict(post_data, existing_ids,
                                   consecutive_dup_count, cutoff_date)
       IN  /\ consecutive_dup_count' =
                  NextDupCount(post_data, existing_ids, consecutive_dup_count)
           /\ examined' = IF post_data = << >> THEN examined
                          ELSE Append(examined, post_data[1].post_id)
           /\ IF verdict = "accept"
              THEN /\ all_posts' = Append(all_posts, post_data[1])
                   /\ acceptedOn' = Append(acceptedOn, page)
                   /\ acceptedPos' = Append(acceptedPos, Len(examined) + 1)
              ELSE UNCHANGED <<all_posts, acceptedOn, acceptedPos>>
           /\ stop_crawling' = (verdict = "stop")
           /\ IF verdict = "stop"
              THEN pc' = "ret" /\ UNCHANGED <<page, rowIdx>>
              ELSE IF rowIdx < Len(rows)
              THEN pc' = "row" /\ rowIdx' = rowIdx + 1 /\ UNCHANGED page
              ELSE pc' = "fetch" /\ page' = page + 1 /\ rowIdx' = 0
    /\ UNCHANGED <<epoch, top, files, runNo, todayIdx, existing_ids, rows, mergeVars,
                   callVars, fetched, failedPage, filesAtStart, failedPrev,
                   changedPrev, changedThis, failedPagePrev>>

(***************************************************************************)
(* crawl_posts returns; main returns on an empty result, and partitions    *)
(* the posts otherwise.                                                    *)
(***************************************************************************)
StripAll(posts) == [i \in 1..Len(posts) |-> StripObj(posts[i])]

\* NothingCollected that never takes the early return
NothingCollectedNever(posts) == FALSE

\* main: `if not posts: return`
NothingCollected(posts) == posts = << >>

Return ==
    /\ pc = "ret"
    /\ all_posts' = StripAll(all_posts)
    /\ IF NothingCollected(all_posts)
       THEN pc' = "idle" /\ weeks_data' = EmptyWeeks
       ELSE pc' = "merge" /\ weeks_data' = organize_by_week(StripAll(all_posts))
    /\ weekIdx' = 1
    /\ UNCHANGED <<epoch, top, files, runNo, todayIdx, existing_ids, page, rows, rowIdx,
                   stop_crawling, consecutive_dup_count, existing_data,
                   week_structure, callVars, histVars>>

(***************************************************************************)
(* merge_and_save: one iteration of the loop over weeks_data, in two       *)
(* steps.  MergeOpen loads and merges the week and opens its file for      *)
(* writing, which truncates it; MergeDump is json.dump and the close.      *)
(***************************************************************************)
MergeOpen ==
    /\ pc = "merge"
    /\ LET week_id   == weeks_data.keys[weekIdx]
           week_data == weeks_data.val[weekIdx]
           loaded    == load_week_data(files, week_id)
           ws        == WeekStructure(loaded, week_data, today)
       IN  /\ week_id \in DOMAIN files => files[week_id].complete
           /\ existing_data' = loaded
           /\ week_structure' = <<ws>>
           \* without a file, all_posts is new_posts itself and the sort is
           \* in place
           /\ weeks_data' = IF loaded = << >>
                            THEN [weeks_data EXCEPT !.val[weekIdx].posts = ws.posts]
                            ELSE weeks_data
           /\ files' = (week_id :> PartialText) @@ files
    /\ pc' = "dump"
    /\ UNCHANGED <<epoch, top, runNo, todayIdx, crawlVars, weekIdx, callVars, histVars>>

MergeDump ==
    /\ pc = "dump"
    /\ files' = (weeks_data.keys[weekIdx] :> WholeText(week_structure[1])) @@ files
    /\ IF weekIdx < Len(weeks_data.keys)
       THEN pc' = "merge" /\ weekIdx' = weekIdx + 1
       ELSE pc' = "idle" /\ weekIdx' = weekIdx
    /\ UNCHANGED <<epoch, top, runNo, todayIdx, crawlVars, weeks_data, existing_data,
                   week_structure, callVars, histVars>>

(***************************************************************************)
(* merge_and_save raises: load_week_data or the open for writing fails     *)
(* (pc = "merge", the week's file is as it was), or json.dump fails        *)
(* (pc = "dump", the week's file keeps the prefix written so far).  main   *)
(* prints the error and raises it again: the process ends with pc =        *)
(* "error".  The archive is followed up to its first storage failure.      *)
(***************************************************************************)
\* StorageFail that restores the archive of the start of the run
StorageFailRollback ==
    /\ pc \in {"merge", "dump"}
    /\ pc' = "error"
    /\ files' = filesAtStart
    /\ UNCHANGED <<epoch, top, runNo, todayIdx, crawlVars, mergeVars, callVars,
                   histVars>>

StorageFail ==
    /\ pc \in {"merge", "dump"}
    /\ pc' = "error"
    /\ UNCHANGED <<epoch, top, files, runNo, todayIdx, crawlVars, mergeVars,
                   callVars, histVars>>

Next ==
    \/ NewPost
    \/ StartRun
    \/ FetchOK
    \/ FetchFail
    \/ RowStep
    \/ Return
    \/ MergeOpen
    \/ MergeDump
    \/ StorageFail

Spec == Init /\ [][Next]_vars

(***************************************************************************)
(* SpecMerge: merge_and_save called on an archive that an earlier call     *)
(* built from an arbitrary list, and then twice with the same new_records. *)
(***************************************************************************)
SeqsUpTo(S, n) == UNION {[1..k -> S] : k \in 0..n}

MergeRecords ==
    {StripObj(extract_post_data(PostRow(id, 1), today)[1]) : id \in 3..(2 + MergeIds)}

InitMerge ==
    /\ epoch \in Epochs
    /\ todayIdx = 1
    /\ \E seed \in SeqsUpTo(MergeRecords, MaxSeed) :
          /\ weeks_data = organize_by_week(seed)
          /\ pc = IF seed = << >> THEN "idle" ELSE "merge"
    /\ new_records \in SeqsUpTo(MergeRecords, MaxNew)
    /\ top = 0
    /\ files = << >>
    /\ runNo = 1
    /\ existing_ids = {}
    /\ all_posts = << >>
    /\ page = 1
    /\ rows = << >>
    /\ rowIdx = 0
    /\ stop_crawling = FALSE
    /\ consecutive_dup_count = 0
    /\ weekIdx = 1
    /\ existing_data = << >>
    /\ week_structure = << >>
    /\ examined = << >>
    /\ fetched = << >>
    /\ failedPage = 0
    /\ acceptedOn = << >>
    /\ acceptedPos = << >>
    /\ filesAtStart = << >>
    /\ failedPrev = FALSE
    /\ changedPrev = FALSE
    /\ changedThis = FALSE
    /\ failedPagePrev = 0
    /\ calls = 0
    /\ beforeFirst = << >>
    /\ afterFirst = << >>

\* merge_and_save(organize_by_week(new_records)), for the first and for the
\* second time
CallMerge ==
    /\ pc = "idle"
    /\ calls < 2
    /\ calls' = calls + 1
    /\ beforeFirst' = IF calls = 0 THEN files ELSE beforeFirst
    /\ afterFirst' = IF calls = 1 THEN files ELSE afterFirst
    /\ weeks_data' = organize_by_week(new_records)
    /\ weekIdx' = 1
    /\ pc' = IF new_records = << >> THEN "idle" ELSE "merge"
    /\ UNCHANGED <<epoch, top, files, runNo, todayIdx, crawlVars, existing_data,
                   week_structure, new_records, histVars>>

NextMerge ==
    \/ CallMerge
    \/ MergeOpen
    \/ MergeDump

SpecMerge == InitMerge /\ [][NextMerge]_vars

(***************************************************************************)
(* SpecExtract: extract_post_data applied to one row with an arbitrary     *)
(* date cell and an arbitrary writer cell.                                 *)
(***************************************************************************)
\* texts of the title attribute: none, two timestamps, and four texts on
\* which strptime raises
DateTitles ==
    {<< >>,
     InYear(PostTable[3]),
     <<epoch, 2, 29, 8, 30, 15>>,
     <<epoch + 1, 2, 29, 8, 30, 15>>,
     <<epoch, 13, 40, 0, 0, 0>>,
     <<epoch, 12, 30, 24, 0, 0>>,
     <<epoch, 12, 30>>}

\* displayed texts
DateTexts ==
    {[sep |-> ":", parts |-> ps] :
        ps \in {<<Num(14), Num(5)>>, <<Num(23), Num(59)>>, <<Num(24), Num(0)>>,
                <<Num(14), Num(60)>>, <<Num(14), NotNum>>,
                <<Num(14), Num(5), Num(0)>>}}
    \cup
    {[sep |-> ".", parts |-> ps] :
        ps \in {<<Num(12), Num(30)>>, <<Num(2), Num(29)>>, <<Num(13), Num(1)>>,
                <<NotNum, Num(1)>>, <<Num(24), Num(2), Num(29)>>,
                <<Num(23), Num(2), Num(29)>>, <<Num(23), Num(12), Num(31)>>,
                <<Num(1), Num(2), NotNum>>, <<Num(1), Num(2), Num(3), Num(4)>>}}
    \cup
    {[sep |-> "", parts |-> ps] : ps \in {<<NotNum>>, <<Num(1230)>>}}

DateCells ==
    {<< >>} \cup {<<[title |-> t, text |-> x]>> : t \in DateTitles, x \in DateTexts}

WriterCells ==
    {<< >>} \cup
    {<<[data_uid |-> u, data_ip |-> i, data_nick |-> n, text |-> x]>> :
        u \in {"", "u1"}, i \in {"", "1.2"},
        n \in {<< >>, AnonNick, AnonNick \o <<"1">>, <<"o">>, <<"n", "o", "o">>},
        x \in {AnonNick, <<"n">>}}

InitExtract ==
    /\ epoch \in Epochs
    /\ todayIdx \in 1..Len(Todays)
    /\ \E d \in DateCells, w \in WriterCells :
          rows = << [data_type |-> "", data_no |-> 1, gall_date |-> d,
                     gall_writer |-> w, views |-> 0] >>
    /\ pc = "extract"
    /\ top = 0
    /\ files = << >>
    /\ runNo = 1
    /\ existing_ids = {}
    /\ all_posts = << >>
    /\ page = 1
    /\ rowIdx = 1
    /\ stop_crawling = FALSE
    /\ consecutive_dup_count = 0
    /\ weeks_data = EmptyWeeks
    /\ weekIdx = 1
    /\ existing_data = << >>
    /\ week_structure = << >>
    /\ examined = << >>
    /\ fetched = << >>
    /\ failedPage = 0
    /\ acceptedOn = << >>
    /\ acceptedPos = << >>
    /\ filesAtStart = << >>
    /\ failedPrev = FALSE
    /\ changedPrev = FALSE
    /\ changedThis = FALSE
    /\ failedPagePrev = 0
    /\ new_records = << >>
    /\ calls = 0
    /\ beforeFirst = << >>
    /\ afterFirst = << >>

\* post_data = extract_post_data(row, today)
ExtractRow ==
    /\ pc = "extract"
    /\ all_posts' = extract_post_data(rows[rowIdx], today)
    /\ pc' = "extracted"
    /\ UNCHANGED <<epoch, top, files, runNo, todayIdx, existing_ids, page, rows,
                   rowIdx, stop_crawling, consecutive_dup_count, mergeVars,
                   callVars, histVars>>

NextExtract == ExtractRow

SpecExtract == InitExtract /\ [][NextExtract]_vars

(***************************************************************************)
(* Properties.                                                             *)
(***************************************************************************)
\* the week ids of the files whose text is whole, and their WeekFiles
WholeWeeks == {w \in DOMAIN files : files[w].complete}

WeekFile(w) == files[w].data[1]

\* the positions of the posts of a WeekFile
StoredAt(w) == 1..Len(WeekFile(w).posts)

\* C1: no post_id appears twice across the union of all WeekFiles (and so
\* none twice inside one WeekFile), after any sequence of runs from an empty
\* archive, also when one run observes the same new row twice.
DedupInvariant ==
    \A w1 \in WholeWeeks : \A w2 \in WholeWeeks :
        \A i \in StoredAt(w1) : \A j \in StoredAt(w2) :
            WeekFile(w1).posts[i].post_id = WeekFile(w2).posts[j].post_id
                => (w1 = w2 /\ i = j)

\* the posts and total_posts of every file are those of the files of fs
SamePosts(fs) ==
    /\ DOMAIN files = DOMAIN fs
    /\ \A w \in DOMAIN files :
          /\ files[w].complete = fs[w].complete
          /\ files[w].complete =>
                /\ WeekFile(w).posts = fs[w].data[1].posts
                /\ WeekFile(w).total_posts = fs[w].data[1].total_posts

\* C2: merge-and-persist called a second time with the same new_records
\* leaves every WeekFile with the posts and total_posts it had after the
\* first call.
MergeIdempotent ==
    (calls = 2 /\ pc = "idle") => SamePosts(afterFirst)

\* C2 witness: the first call added a record to a file that existed, and the
\* second call has returned
MergeIdempotentWitness ==
    /\ calls = 2
    /\ pc = "idle"
    /\ \E w \in DOMAIN beforeFirst :
          Len(WeekFile(w).posts) > Len(beforeFirst[w].data[1].posts)

\* C3: the posts of every WeekFile are sorted by datetime, non-increasing.
OrderingInvariant ==
    \A w \in WholeWeeks :
        \A i \in StoredAt(w) :
            i > 1 => ~StrLess(WeekFile(w).posts[i - 1].datetime,
                              WeekFile(w).posts[i].datetime)

\* C3 witness: a run put a new post in front of the posts a file held
OrderingWitness ==
    /\ pc = "idle"
    /\ \E w \in WholeWeeks :
          /\ w \in DOMAIN filesAtStart
          /\ Len(WeekFile(w).posts) > Len(filesAtStart[w].data[1].posts)
          /\ StrLess(filesAtStart[w].data[1].posts[1].datetime,
                     WeekFile(w).posts[1].datetime)

\* the ISO week of a day by the rule of ISO 8601: the week's Thursday lies
\* in the ISO year, and the week's number counts the Thursdays of that year
ThursdayOf(ord) == ord - ((ord + 6) % 7) + 3

IsoWeekByThursday(ord) ==
    LET year == Ord2Ymd(ThursdayOf(ord))[1]
    IN  <<year, ((ThursdayOf(ord) - Ymd2Ord(year, 1, 1)) \div 7) + 1>>

OrdOfDate(d) == Ymd2Ord(d[1], d[2], d[3])

\* C4: every stored record's ISO week, computed from its own datetime, is
\* the week of its WeekFile, and week_start and week_end are the Monday and
\* the Sunday of that ISO week.
PartitionCorrect ==
    \A w \in WholeWeeks :
        /\ WeekFile(w).week = w
        /\ (OrdOfDate(WeekFile(w).week_start) + 6) % 7 = 0
        /\ OrdOfDate(WeekFile(w).week_end) = OrdOfDate(WeekFile(w).week_start) + 6
        /\ IsoWeekByThursday(OrdOfDate(WeekFile(w).week_start)) = w
        /\ IsoWeekByThursday(OrdOfDate(WeekFile(w).week_end)) = w
        /\ \A i \in StoredAt(w) :
              IsoWeekByThursday(OrdOfDate(WeekFile(w).posts[i].datetime)) = w

\* C4 witness: a stored post whose calendar year is not the ISO year of its
\* week, in a WeekFile that holds two posts
PartitionWitness ==
    \E w \in WholeWeeks :
        /\ Len(WeekFile(w).posts) >= 2
        /\ \E i \in StoredAt(w) : WeekFile(w).posts[i].datetime[1] # w[1]

\* the crawl loop of this run has ended
LoopEnded == pc \notin {"fetch", "row"}

\* the records k-DupLimit+1 .. k of this run are all known
FiveKnownUpTo(k) ==
    /\ k >= DupLimit
    /\ \A j \in (k - DupLimit + 1)..k : examined[j] \in existing_ids

\* C5: when five consecutively extracted records are all known, the crawl
\* stops at the fifth and accepts nothing behind it; when they are the first
\* five of the run, the run collects nothing.
RuleA ==
    /\ \A k \in 1..Len(examined) :
          FiveKnownUpTo(k) =>
              /\ k = Len(examined)
              /\ LoopEnded
              /\ stop_crawling
              /\ \A i \in 1..Len(acceptedPos) : acceptedPos[i] < k
    /\ (Len(examined) >= DupLimit /\ FiveKnownUpTo(DupLimit)) => all_posts = << >>

\* C5 witness: the first five records of a run were known, the crawl has
\* stopped, and the page holds a further row
RuleAWitness ==
    /\ pc = "ret"
    /\ stop_crawling
    /\ Len(examined) = DupLimit
    /\ FiveKnownUpTo(DupLimit)
    /\ rowIdx < Len(rows)

\* the timestamp of post number id, and whether it lies before the cutoff
\* of the current run
TsOf(id) == Strptime(InYear(PostTable[id]))

IsOld(id) == DtLess(TsOf(id), cutoff_date)

\* the records extracted in this run have strictly decreasing timestamps
StrictlyDecreasing ==
    \A i \in 1..Len(examined) : \A j \in 1..Len(examined) :
        i < j => DtLess(TsOf(examined[j]), TsOf(examined[i]))

\* positions of examined that hold a record older than the cutoff
OldAt == {k \in 1..Len(examined) : IsOld(examined[k])}

IsStored(post) ==
    \E w \in WholeWeeks : \E i \in StoredAt(w) : WeekFile(w).posts[i] = post

\* C7: a failed fetch of page p ends the loop with no further request, the
\* result is what pages 1..p-1 gave, and the run stores it in the archive.
TransportFailureKeepsPartial ==
    failedPage > 0 =>
        /\ LoopEnded
        /\ fetched[Len(fetched)] = failedPage
        /\ Len(all_posts) = Len(acceptedOn)
        /\ \A i \in 1..Len(acceptedOn) : acceptedOn[i] < failedPage
        /\ pc = "idle" => \A i \in 1..Len(all_posts) : IsStored(all_posts[i])

\* C7 witness: a run whose fetch of a page behind the first failed has
\* ended with records collected
TransportFailureWitness ==
    /\ pc = "idle"
    /\ failedPage >= 2
    /\ all_posts # << >>

\* C8: when a run was cut short by a failed fetch and the next run crawls
\* the same listing without a failure, every post of the listing inside the
\* window is in the archive after it.
RetryCollectsAll ==
    (pc = "idle" /\ runNo >= 2 /\ failedPrev /\ failedPage = 0
        /\ ~changedPrev /\ ~changedThis) =>
        \A id \in 1..top : ~IsOld(id) => id \in load_all_existing_ids(files)

\* C9: at every moment every file of the archive reads as a WeekFile whose
\* total_posts is the length of its posts.
AtomicPersist ==
    \A w \in DOMAIN files :
        /\ files[w].complete
        /\ WeekFile(w).total_posts = Len(WeekFile(w).posts)

\* the record is among the posts of the WeekFile wf
HasRecord(wf, post) == \E i \in 1..Len(wf.posts) : wf.posts[i] = post

\* the run collected a record of week w
ReceivedNew(w) ==
    \E i \in 1..Len(all_posts) :
        get_week_info(Strptime(all_posts[i].datetime)).week_id = w

ZeroResultNoOp ==
    (runNo >= 1 /\ pc \in {"idle", "merge", "dump", "error"} /\ all_posts = << >>)
        => (pc = "idle" /\ files = filesAtStart)

\* a second run, at a later moment, that examined records, collected none of
\* them and has returned, over a non-empty archive
ZeroResultWitness ==
    /\ pc = "idle"
    /\ runNo = 2
    /\ all_posts = << >>
    /\ examined # << >>
    /\ files # << >>

\* C12: when merge_and_save raises at the k-th week, main raises, and the
\* files of the weeks before the k-th are whole and hold the records they
\* held when the run started and the records this run collected for them.
StorageFailureIsolation ==
    pc = "error" =>
        \A j \in 1..(weekIdx - 1) :
            LET w == weeks_data.keys[j]
            IN  /\ w \in WholeWeeks
                /\ \A i \in 1..Len(weeks_data.val[j].posts) :
                       HasRecord(WeekFile(w), weeks_data.val[j].posts[i])
                /\ w \in DOMAIN filesAtStart =>
                       \A i \in 1..Len(filesAtStart[w].data[1].posts) :
                           HasRecord(WeekFile(w), filesAtStart[w].data[1].posts[i])

\* the failure is at the second week or behind it, and the first week had a
\* file before the run
StorageFailureWitness ==
    /\ pc = "error"
    /\ weekIdx >= 2
    /\ weeks_data.keys[1] \in DOMAIN filesAtStart

\* the row of SpecExtract, its cells and what was emitted for it
TheRow == rows[1]

Emitted == pc = "extracted" /\ all_posts # << >>

WriterOf(row) == row.gall_writer[1]

\* the displayed nickname: data-nick, or the text of the cell
Nickname(w) == IF w.data_nick # << >> THEN w.data_nick ELSE w.text

HasMarker(w) ==
    Len(Nickname(w)) >= 2 /\ Nickname(w)[1] = "o" /\ Nickname(w)[2] = "o"

\* C13 as stated: author_type is member with a data-uid, else with a data-ip
\* semi_anonymous or ip by the nickname, else unknown, with or without a
\* writer cell.
AuthorTypeUnknownElse ==
    Emitted =>
        all_posts[1].author_type =
            IF TheRow.gall_writer = << >> THEN "unknown"
            ELSE IF WriterOf(TheRow).data_uid # "" THEN "member"
            ELSE IF WriterOf(TheRow).data_ip # ""
            THEN (IF HasMarker(WriterOf(TheRow)) THEN "semi_anonymous" ELSE "ip")
            ELSE "unknown"

\* C13, amended: author_type is member with a data-uid, else with a data-ip
\* semi_anonymous or ip by the nickname, else ip when the row has a writer
\* cell, and unknown only when the row has no writer cell.
AuthorTypeResolution ==
    Emitted =>
        all_posts[1].author_type =
            IF TheRow.gall_writer = << >> THEN "unknown"
            ELSE IF WriterOf(TheRow).data_uid # "" THEN "member"
            ELSE IF WriterOf(TheRow).data_ip # ""
            THEN (IF HasMarker(WriterOf(TheRow)) THEN "semi_anonymous" ELSE "ip")
            ELSE "ip"

\* a row with a writer cell that has neither attribute was emitted
AuthorTypeWitness ==
    /\ Emitted
    /\ TheRow.gall_writer # << >>
    /\ WriterOf(TheRow).data_uid = ""
    /\ WriterOf(TheRow).data_ip = ""

\* the timestamp of the emitted record as text, << >> when none was emitted
Resolved == IF all_posts = << >> THEN << >> ELSE <<all_posts[1].datetime>>

TodayYmd == StrfDate(today)

InRange(part, lo, hi) == part # NotNum /\ part[1] >= lo /\ part[1] <= hi

IsDayOf(y, m, d) ==
    /\ y \in 1..9999
    /\ m \in 1..12
    /\ d >= 1
    /\ d <= (IF m = 2 THEN (IF IsLeap(y) THEN 29 ELSE 28)
             ELSE IF m \in {4, 6, 9, 11} THEN 30 ELSE 31)

\* what the three rules of the displayed text say
ByText(text) ==
    IF text.sep = ":"
    THEN IF /\ Len(text.parts) = 2
            /\ InRange(text.parts[1], 0, 23)
            /\ InRange(text.parts[2], 0, 59)
         THEN << TodayYmd \o <<text.parts[1][1], text.parts[2][1], 0>> >>
         ELSE << >>
    ELSE IF text.sep = "." /\ Len(text.parts) = 2
    THEN IF /\ \A i \in 1..2 : text.parts[i] # NotNum
            /\ IsDayOf(TodayYmd[1], text.parts[1][1], text.parts[2][1])
         THEN << <<TodayYmd[1], text.parts[1][1], text.parts[2][1], 0, 0, 0>> >>
         ELSE << >>
    ELSE IF text.sep = "." /\ Len(text.parts) = 3
    THEN IF /\ \A i \in 1..3 : text.parts[i] # NotNum
            /\ IsDayOf(2000 + text.parts[1][1], text.parts[2][1], text.parts[3][1])
         THEN << <<2000 + text.parts[1][1], text.parts[2][1], text.parts[3][1],
                   0, 0, 0>> >>
         ELSE << >>
    ELSE << >>

IsTimestamp(t) ==
    /\ Len(t) = 6
    /\ IsDayOf(t[1], t[2], t[3])
    /\ t[4] \in 0..23 /\ t[5] \in 0..59 /\ t[6] \in 0..59

\* C14 as stated: the cell's format selects one rule, the title attribute
\* when it is present, and a parse failure under the selected rule resolves
\* the cell to none.
DateSingleRule ==
    pc = "extracted" =>
        Resolved =
            IF TheRow.gall_date = << >> THEN << >>
            ELSE IF TheRow.gall_date[1].title # << >>
            THEN (IF IsTimestamp(TheRow.gall_date[1].title)
                  THEN <<TheRow.gall_date[1].title>> ELSE << >>)
            ELSE ByText(TheRow.gall_date[1].text)

\* C14, amended: a title attribute that parses resolves the cell; without
\* one, or with one that does not parse, the displayed text selects one of
\* the three text rules, and a parse failure under that rule resolves the
\* cell to none.
DateResolution ==
    pc = "extracted" =>
        Resolved =
            IF TheRow.gall_date = << >> THEN << >>
            ELSE IF /\ TheRow.gall_date[1].title # << >>
                    /\ IsTimestamp(TheRow.gall_date[1].title)
            THEN <<TheRow.gall_date[1].title>>
            ELSE ByText(TheRow.gall_date[1].text)

\* a cell whose title attribute does not parse and whose text is a valid
\* HH:MM was resolved from the text
DateResolutionWitness ==
    /\ pc = "extracted"
    /\ TheRow.gall_date # << >>
    /\ TheRow.gall_date[1].title # << >>
    /\ ~IsTimestamp(TheRow.gall_date[1].title)
    /\ TheRow.gall_date[1].text.sep = ":"
    /\ Resolved # << >>

\* the record examined last
LastExamined == examined[Len(examined)]

\* C15: every record of the result has an id outside known_ids and a
\* timestamp on or after the cutoff, during the row loop and after the
\* return; and a known record ends the crawl only as the fifth known record
\* in a row, however old it is.
AcceptanceInvariant ==
    runNo >= 1 =>
        /\ \A i \in 1..Len(all_posts) :
               /\ all_posts[i].post_id \notin existing_ids
               /\ DtGeq(Strptime(all_posts[i].datetime), cutoff_date)
        /\ (stop_crawling /\ examined # << >> /\ LastExamined \in existing_ids)
               => consecutive_dup_count >= DupLimit

\* the crawl went on behind a known record older than the cutoff, with a
\* record in the result
AcceptanceWitness ==
    /\ runNo >= 1
    /\ all_posts # << >>
    /\ \E k \in 1..(Len(examined) - 1) :
           examined[k] \in existing_ids /\ IsOld(examined[k])

\* C16: known_ids is the set of the ids in the files of the start of the
\* run, from the first page request to the end of the run; every examined
\* record with an id outside it and a timestamp in the window is in the
\* result, a repeated one as often as it was examined; and behind such a
\* record the counter is 0.
KnownIdsFixed ==
    runNo >= 1 =>
        /\ existing_ids = load_all_existing_ids(filesAtStart)
        /\ \A k \in 1..Len(examined) :
               (examined[k] \notin existing_ids /\ ~IsOld(examined[k]))
                   => \E i \in 1..Len(acceptedPos) : acceptedPos[i] = k
        /\ (examined # << >> /\ LastExamined \notin existing_ids)
               => consecutive_dup_count = 0

\* one id was examined twice and accepted twice
KnownIdsFixedWitness ==
    \E i, j \in 1..Len(acceptedPos) :
        /\ i < j
        /\ examined[acceptedPos[i]] = examined[acceptedPos[j]]
        /\ all_posts[i].post_id = all_posts[j].post_id

\* the page fetched last had no rows
EmptyPageSeen == fetched # << >> /\ rows = << >> /\ failedPage = 0

\* C17: the pages are requested in the order 1, 2, 3, ..., one at a time and
\* each once; once a request has failed, a page has come back empty or a row
\* has set stop_crawling, the loop is over and no page is requested behind
\* it; and no run requests a page behind the first page of the listing that
\* has no rows.
CrawlTermination ==
    /\ \A i \in 1..Len(fetched) : fetched[i] = i
    /\ pc = "fetch" => page = Len(fetched) + 1
    /\ pc = "row" => page = Len(fetched)
    /\ (failedPage > 0 \/ EmptyPageSeen \/ stop_crawling)
           => (LoopEnded /\ page = Len(fetched))
    /\ Len(fetched) <= (top \div PageSize) + 2

\* a run that ended at an empty third or later page
CrawlTerminationWitness ==
    /\ LoopEnded
    /\ EmptyPageSeen
    /\ Len(fetched) >= 3

\* the number of known records at the end of examined
TrailingKnown ==
    LET unknownAt == {k \in 1..Len(examined) : examined[k] \notin existing_ids}
    IN  IF unknownAt = {} THEN Len(examined)
        ELSE Len(examined) - (CHOOSE k \in unknownAt : \A l \in unknownAt : l <= k)

\* C18: the counter is the number of known records examined since the last
\* unknown record of the run, over all pages and whatever rows the extractor
\* rejected in between; it is in 0..5; and the crawl is not stopped at a
\* known record while the counter is below 5.
CounterSemantics ==
    /\ consecutive_dup_count = TrailingKnown
    /\ consecutive_dup_count \in 0..DupLimit
    /\ (stop_crawling /\ consecutive_dup_count < DupLimit)
           => (examined # << >> /\ LastExamined \notin existing_ids)

\* on the second or a later page, behind a notice row, the counter still has
\* the three known records of the pages before
CounterSemanticsWitness ==
    /\ pc = "row"
    /\ page >= 2
    /\ rowIdx = 2
    /\ rows[1].data_type = "icon_notice"
    /\ consecutive_dup_count >= 3

\* C19: when the loop is over, a request has failed, or the last page had no
\* rows, or the last five records were known, or the last record is unknown
\* and older than the cutoff.
StopCauses ==
    (runNo >= 1 /\ fetched # << >> /\ LoopEnded) =>
        \/ failedPage = Len(fetched)
        \/ EmptyPageSeen
        \/ /\ stop_crawling
           /\ Len(examined) >= DupLimit
           /\ FiveKnownUpTo(Len(examined))
        \/ /\ stop_crawling
           /\ examined # << >>
           /\ LastExamined \notin existing_ids
           /\ IsOld(LastExamined)

\* behind a page whose rows were all rejected by the extractor, or all known,
\* the next page is about to be requested
StopCausesWitness ==
    /\ pc = "fetch"
    /\ page >= 2
    /\ rows # << >>
    /\ \A i \in 1..Len(rows) :
           \/ extract_post_data(rows[i], today) = << >>
           \/ rows[i].data_no \in existing_ids
    /\ consecutive_dup_count < DupLimit

\* the page requests of this run have had the outcomes of the run before
SameTransport ==
    \/ failedPagePrev = 0
    \/ Len(fetched) < failedPagePrev
    \/ failedPage = failedPagePrev

\* C20: a run behind a completed run, over the listing that run saw and
\* with the same outcome of the page requests, collects no record and
\* leaves the archive as it was.
RunIdempotent ==
    (runNo >= 2 /\ ~changedPrev /\ ~changedThis /\ SameTransport)
        => (all_posts = << >> /\ files = filesAtStart)

\* the second run has returned; both runs failed at the same page behind
\* the first, and the first run saved records
RunIdempotentWitness ==
    /\ pc = "idle"
    /\ runNo = 2
    /\ ~changedPrev
    /\ ~changedThis
    /\ failedPagePrev >= 2
    /\ failedPage = failedPagePrev
    /\ files # << >>

====
